---- MODULE Spec2Model ----
(***************************************************************************)
(* TestBook AI bot (src/main.py): the user store (USERDATA, save_data,     *)
(* ensure_user, log_user), the random-quiz session engine (cmd_dailyquiz,  *)
(* send_next_quiz_question, the dailyans_ branch of callback_query), the   *)
(* chapter-quiz answer branch, the text, voice and photo handlers, the     *)
(* callback payloads as strings, and the load of userdata.json at startup. *)
(*                                                                         *)
(* Python dictionaries are functions whose DOMAIN is the set of keys that  *)
(* are present.  A quiz session is a mutable dict object: `heap` maps an   *)
(* object id to the object's fields and USERDATA[uid].pending_quiz holds   *)
(* the id, so a handler's local `state` aliases the stored session.        *)
(***************************************************************************)
EXTENDS Integers, Sequences, FiniteSets, TLC

VARIABLES
    QUIZ_BANK,   \* the question bank (module constant of main.py, "extend as needed")
    USERDATA,    \* dict: uid string -> user record
    heap,        \* session objects: object id -> [questions, index, score]
    disk,        \* userdata.json: [state, data]
    sent,        \* the messages the most recent handler sent, in order
    clock,       \* int(time.time())
    update,      \* the update handled last: [op, from, uid, qidx, opt, data]
    workers,     \* telebot worker threads: position and locals of the running handler
    quizlog,     \* history: per uid, what happened to the session since it started
    dispatched,  \* history: the updates handed to the worker threads, in order
    arrivals     \* history: every log entry appended for LogUser, in arrival order

vars == <<QUIZ_BANK, USERDATA, heap, disk, sent, clock, update, workers, quizlog, dispatched, arrivals>>

-----------------------------------------------------------------------------
(* Bounds of the model *)

MaxLoad == 2         \* Spec: log, note and score entries stored plus users who started a quiz
MaxAppends == 203    \* SpecLog: log appends
MaxTaps == 3         \* SpecThreads: dailyans callbacks dispatched
MaxStarts == 1       \* SpecThreads: /dailyquiz commands dispatched
MaxEntries == 2      \* SpecMedia: log entries stored
MaxScores == 2       \* SpecRouter: score and log entries stored
MaxCodecScores == 1  \* SpecCodec: score entries stored
MaxRecord == 4       \* SpecRecord: log, note and score entries stored

(* Program constants *)

SampleSize == 5      \* min(5, len(QUIZ_BANK))
LogCap == 200        \* logs[-200:]
NumThreads == 2      \* telebot.TeleBot(...) default: threaded, two workers
NumOpts == 4         \* every question has four options

-----------------------------------------------------------------------------
(* Inputs *)

UserIds == {1, 2}
StrTable == <<"1", "2">>
Str(n) == StrTable[n]                 \* str(uid)
Keys == {Str(n) : n \in UserIds}
StrangerKey == "9"                    \* a uid string no user of the model has
PayloadKeys == Keys \cup {StrangerKey}
QIdxs == -1 .. 5                      \* int(qidx_str)
Opts == 0 .. (NumOpts - 1)            \* int(opt_str)
Threads == 1 .. NumThreads

Min(a, b) == IF a <= b THEN a ELSE b

-----------------------------------------------------------------------------
(* Content *)

Question(text, options, answer) == [q |-> text, opts |-> options, a |-> answer]

QUIZ_BANK_SRC ==
    << Question("Bharat ka rashtriya phool kaun sa hai?", <<"Rose", "Lotus", "Lily", "Sunflower">>, 1),
       Question("2+2*2 = ?", <<"6", "8", "4", "10">>, 0),
       Question("Capital of India?", <<"Mumbai", "Kolkata", "New Delhi", "Chennai">>, 2),
       Question("H2O is chemical for:", <<"Salt", "Water", "Oxygen", "Hydrogen">>, 1),
       Question("5*6 = ?", <<"30", "25", "35", "40">>, 0) >>

\* the bank extended by one question, and cut down to two and to none
BankExtended == Append(QUIZ_BANK_SRC, Question("7*8 = ?", <<"54", "58", "64", "56">>, 3))
BankSmall == SubSeq(QUIZ_BANK_SRC, 1, 2)
BankEmpty == << >>

BOOK ==
    << [id |-> "ch1", title |-> "Adhyay 1: Parichay",
        quiz |-> << Question("Parichay adhyay ka uddeshya kya hai?",
                             <<"Samanya jankari", "Ganit", "Bhasha", "Itihas">>, 0) >>],
       [id |-> "ch2", title |-> "Adhyay 2: Mool Sankalpnaen",
        quiz |-> << Question("Concept A kis se sambandhit hai?", <<"A", "B", "C", "D">>, 1) >>] >>

BOOK_MAP == [c \in {BOOK[i].id : i \in 1..Len(BOOK)} |->
                BOOK[CHOOSE i \in 1..Len(BOOK) : BOOK[i].id = c]]

-----------------------------------------------------------------------------
(* Python helpers *)

\* seq[i] of a Python list: 0-based, negative i counts from the end
InRange(s, i) == (i >= 0 /\ i < Len(s)) \/ (i < 0 /\ -i <= Len(s))
PyIndex(s, i) == IF i >= 0 THEN s[i + 1] ELSE s[Len(s) + i + 1]

\* the slip seq[:n]: the oldest entries are kept
KeepFirstN(s, n) == IF Len(s) <= n THEN s ELSE SubSeq(s, 1, n)

\* seq[-n:]
LastN(s, n) == IF Len(s) <= n THEN s ELSE SubSeq(s, Len(s) - n + 1, Len(s))

\* d.pop(key, None) and d[key] = value on a dict
DictPop(d, key) == [k \in DOMAIN d \ {key} |-> d[k]]
DictSet(d, key, value) == [k \in DOMAIN d \cup {key} |-> IF k = key THEN value ELSE d[k]]
EmptyDict == [k \in {} |-> 0]

\* A Python str that the code takes apart is the sequence of its characters.
Digits == << "0", "1", "2", "3", "4", "5", "6", "7", "8", "9" >>
DigitOf(c) == CHOOSE d \in 0..9 : Digits[d + 1] = c
IsDigit(c) == \E d \in 0..9 : Digits[d + 1] = c

\* the str with these characters, as a key of USERDATA or BOOK_MAP
RECURSIVE Join(_)
Join(chars) == IF chars = << >> THEN "" ELSE Head(chars) \o Join(Tail(chars))

\* f"{n}" of an int
RECURSIVE FormatNat(_)
FormatNat(n) == IF n < 10 THEN << Digits[n + 1] >>
                ELSE Append(FormatNat(n \div 10), Digits[(n % 10) + 1])
FormatInt(n) == IF n < 0 THEN << "-" >> \o FormatNat(-n) ELSE FormatNat(n)

\* s.strip()
Whitespace == { " ", "\n", "\f" }
RECURSIVE Strip(_)
Strip(s) == IF s # << >> /\ Head(s) \in Whitespace THEN Strip(Tail(s))
            ELSE IF s # << >> /\ s[Len(s)] \in Whitespace THEN Strip(SubSeq(s, 1, Len(s) - 1))
            ELSE s

\* int(s): whitespace around, an optional sign, then decimal digits; IsInt is false
\* where int raises ValueError
Unsigned(s) == IF s # << >> /\ s[1] \in {"+", "-"} THEN Tail(s) ELSE s
IsInt(s) == LET d == Unsigned(Strip(s))
            IN  d # << >> /\ \A i \in 1..Len(d) : IsDigit(d[i])
RECURSIVE ParseNat(_)
ParseNat(d) == IF d = << >> THEN 0 ELSE 10 * ParseNat(SubSeq(d, 1, Len(d) - 1)) + DigitOf(d[Len(d)])
ParseInt(s) == LET t == Strip(s)
               IN  IF t[1] = "-" THEN - ParseNat(Tail(t)) ELSE ParseNat(Unsigned(t))

\* data.split("_") and data.split("_", 1)
RECURSIVE Split(_)
Split(s) ==
    IF \A i \in 1..Len(s) : s[i] # "_"
    THEN << s >>
    ELSE LET i == CHOOSE j \in 1..Len(s) : s[j] = "_" /\ \A k \in 1..(j - 1) : s[k] # "_"
         IN  << SubSeq(s, 1, i - 1) >> \o Split(SubSeq(s, i + 1, Len(s)))
SplitOnce(s) ==
    IF \A i \in 1..Len(s) : s[i] # "_"
    THEN << s >>
    ELSE LET i == CHOOSE j \in 1..Len(s) : s[j] = "_" /\ \A k \in 1..(j - 1) : s[k] # "_"
         IN  << SubSeq(s, 1, i - 1), SubSeq(s, i + 1, Len(s)) >>

\* data.startswith(prefix)
HasPrefix(s, prefix) == Len(s) >= Len(prefix) /\ SubSeq(s, 1, Len(prefix)) = prefix

\* the sequences of k pairwise distinct positions of a list of n elements
RECURSIVE Arrangements(_, _)
Arrangements(n, k) ==
    IF k = 0
    THEN {<< >>}
    ELSE UNION { {Append(p, x) : x \in (1..n) \ {p[i] : i \in 1..Len(p)}} :
                    p \in Arrangements(n, k - 1) }

\* the slip random.choices(bank, k=k): positions may repeat
SampleRepeating(bank, k) == { [i \in 1..k |-> bank[p[i]]] : p \in [1..k -> 1..Len(bank)] }

\* random.sample(bank, k): every outcome, k elements at pairwise distinct positions
Sample(bank, k) == { [i \in 1..k |-> bank[p[i]]] : p \in Arrangements(Len(bank), k) }

\* some outcomes of random.sample(bank, k): the bank's order, started at any position
Rotations(bank, k) ==
    IF k = 0
    THEN {<< >>}
    ELSE { [i \in 1..k |-> bank[((i + r - 1) % Len(bank)) + 1]] : r \in 0..(Len(bank) - 1) }

-----------------------------------------------------------------------------
(* The store *)

HasQuiz(U, uid) == uid \in DOMAIN U /\ "pending_quiz" \in DOMAIN U[uid]

\* json.dump(USERDATA): session objects are written by value
Dump(U, H) ==
    [k \in DOMAIN U |->
        IF "pending_quiz" \in DOMAIN U[k]
        THEN DictSet(U[k], "pending_quiz", H[U[k].pending_quiz])
        ELSE U[k]]

\* object ids of the sessions json.load builds, one per record that holds one
LoadOid(data, k) == Cardinality({n \in UserIds : n <= CHOOSE m \in UserIds : Str(m) = k})

LoadUsers(data) ==
    [k \in DOMAIN data |->
        IF "pending_quiz" \in DOMAIN data[k]
        THEN DictSet(data[k], "pending_quiz", LoadOid(data, k))
        ELSE data[k]]

LoadHeap(data) ==
    LET owners == {k \in DOMAIN data : "pending_quiz" \in DOMAIN data[k]}
    IN  [o \in {LoadOid(data, k) : k \in owners} |->
            data[CHOOSE k \in owners : LoadOid(data, k) = o].pending_quiz]

\* objects a worker thread holds in a local variable
Held(W) == {W[t].state : t \in DOMAIN W} \ {0}

\* objects reachable from USERDATA
Stored(U) == {U[k].pending_quiz : k \in {x \in DOMAIN U : "pending_quiz" \in DOMAIN U[x]}}

\* a fresh object id: the least one no reachable object has
NewOid(live) == CHOOSE n \in 1..(Cardinality(live) + 1) :
                    n \notin live /\ \A m \in 1..(n - 1) : m \in live

\* unreachable objects are garbage
Collect(H, live) == [o \in DOMAIN H \cap live |-> H[o]]

\* The world a handler runs in: w.USERDATA, w.heap, w.disk, w.sent, and w.calls, the
\* calls it made to outside services
World == [USERDATA |-> USERDATA, heap |-> heap, disk |-> disk, sent |-> << >>, calls |-> << >>]

Msg(chat, kind, uid, a, b, text) ==
    [chat |-> chat, kind |-> kind, uid |-> uid, a |-> a, b |-> b, text |-> text]

\* bot.send_message / bot.reply_to / bot.answer_callback_query
send(w, msg) == [w EXCEPT !.sent = Append(@, msg)]

\* what a handler asked of an outside service and what it got: requests.get ("fetch"),
\* transcribe_audio_file, ocr_image_from_bytes, Translator and openai_chat_reply
\* ("complete"); a library found missing is recorded with the outcome "unavailable"
call(w, service, outcome) ==
    [w EXCEPT !.calls = Append(@, [service |-> service, outcome |-> outcome])]

save_data(w) == [w EXCEPT !.disk = [state |-> "ok", data |-> Dump(w.USERDATA, w.heap)]]

DefaultRecord == [notes |-> << >>, scores |-> EmptyDict, lang |-> "auto", logs |-> << >>]

\* the slip of an ensure_user that writes the default record whether or not the user
\* is known
ensure_user_resetting(w, uid) ==
    save_data([w EXCEPT !.USERDATA = DictSet(@, uid, DefaultRecord)])

ensure_user(w, uid) ==
    IF uid \in DOMAIN w.USERDATA
    THEN w
    ELSE save_data([w EXCEPT !.USERDATA = DictSet(@, uid, DefaultRecord)])

\* the slip of a log_user that does not call save_data
log_user_unsaved(w, uid, ts, text) ==
    LET w1 == ensure_user(w, uid)
        appended == Append(w1.USERDATA[uid].logs, [ts |-> ts, text |-> text])
    IN  [w1 EXCEPT !.USERDATA[uid].logs = LastN(appended, LogCap)]

log_user(w, uid, ts, text) ==
    LET w1 == ensure_user(w, uid)
        appended == Append(w1.USERDATA[uid].logs, [ts |-> ts, text |-> text])
    IN  save_data([w1 EXCEPT !.USERDATA[uid].logs = LastN(appended, LogCap)])

-----------------------------------------------------------------------------
(* The quiz engine *)

\* the slip of a completion that does not pop pending_quiz
send_next_keeping_session(w, chat_id, uid) ==
    IF ~ HasQuiz(w.USERDATA, uid)
    THEN send(w, Msg(chat_id, "text", uid, 0, 0, "No quiz in progress."))
    ELSE LET state == w.heap[w.USERDATA[uid].pending_quiz]
             idx == state.index
         IN  IF idx >= Len(state.questions)
             THEN save_data(send(w, Msg(chat_id, "finished", uid, state.score,
                                        Len(state.questions), "Quiz finished. Score:")))
             ELSE send(w, Msg(chat_id, "question", uid, idx, NumOpts,
                              PyIndex(state.questions, idx).q))

send_next_quiz_question(w, chat_id, uid) ==
    IF ~ HasQuiz(w.USERDATA, uid)
    THEN send(w, Msg(chat_id, "text", uid, 0, 0, "No quiz in progress."))
    ELSE LET state == w.heap[w.USERDATA[uid].pending_quiz]
             idx == state.index
         IN  IF idx >= Len(state.questions)
             THEN LET w1 == send(w, Msg(chat_id, "finished", uid, state.score,
                                        Len(state.questions), "Quiz finished. Score:"))
                  IN  save_data([w1 EXCEPT !.USERDATA[uid] = DictPop(@, "pending_quiz")])
             ELSE send(w, Msg(chat_id, "question", uid, idx, NumOpts,
                              PyIndex(state.questions, idx).q))

\* the slip of a cmd_dailyquiz that carries on with the index and the score of the
\* session the user has
start_quiz_resuming(w, from, questions, oid) ==
    LET uid == Str(from)
        w1 == ensure_user(w, uid)
        old == IF HasQuiz(w1.USERDATA, uid)
               THEN w1.heap[w1.USERDATA[uid].pending_quiz]
               ELSE [questions |-> questions, index |-> 0, score |-> 0]
        w2 == [w1 EXCEPT !.heap = DictSet(@, oid, [questions |-> questions,
                                                  index |-> Min(old.index, Len(questions)),
                                                  score |-> old.score]),
                         !.USERDATA[uid] = DictSet(@, "pending_quiz", oid)]
    IN  send_next_quiz_question(save_data(w2), from, uid)

\* cmd_dailyquiz, with `questions` the outcome of random.sample and `oid` the new dict
start_quiz(w, from, questions, oid) ==
    LET uid == Str(from)
        w1 == ensure_user(w, uid)
        w2 == [w1 EXCEPT !.heap = DictSet(@, oid, [questions |-> questions, index |-> 0, score |-> 0]),
                         !.USERDATA[uid] = DictSet(@, "pending_quiz", oid)]
    IN  send_next_quiz_question(save_data(w2), from, uid)

\* the slip of scoring every answer, correct or not
record_answer_scoring_all(w, from, uid, qidx, opt) ==
    LET oid == w.USERDATA[uid].pending_quiz
        w1 == [w EXCEPT !.heap[oid].score = @ + 1]
        w2 == [w1 EXCEPT !.heap[oid].index = @ + 1]
        w3 == [w2 EXCEPT !.USERDATA[uid] = DictSet(@, "pending_quiz", oid)]
        w4 == send(save_data(w3), Msg(from, "callback", uid, 0, 0, "Answer recorded."))
    IN  send_next_quiz_question(w4, from, uid)

\* callback_query, lines 321-330: the answer is scored against the stored session
record_answer(w, from, uid, qidx, opt) ==
    LET oid == w.USERDATA[uid].pending_quiz
        correct == (opt = PyIndex(w.heap[oid].questions, qidx).a)
        w1 == [w EXCEPT !.heap[oid].score = IF correct THEN @ + 1 ELSE @]
        w2 == [w1 EXCEPT !.heap[oid].index = @ + 1]
        w3 == [w2 EXCEPT !.USERDATA[uid] = DictSet(@, "pending_quiz", oid)]
        w4 == send(save_data(w3), Msg(from, "callback", uid, 0, 0, "Answer recorded."))
    IN  send_next_quiz_question(w4, from, uid)

\* the slip of calling ensure_user(uid) before the session is looked up
daily_answer_ensuring(w, from, uid, qidx, opt) ==
    LET w0 == ensure_user(w, uid)
    IN  IF ~ HasQuiz(w0.USERDATA, uid)
        THEN send(w0, Msg(from, "callback", uid, 0, 0, "Quiz not found."))
        ELSE IF ~ InRange(w0.heap[w0.USERDATA[uid].pending_quiz].questions, qidx)
             THEN send(w0, Msg(from, "callback", uid, 0, 0, "Error occurred."))
             ELSE record_answer(w0, from, uid, qidx, opt)

\* the dailyans_ branch of callback_query; an IndexError ends in the except clause
daily_answer(w, from, uid, qidx, opt) ==
    IF ~ HasQuiz(w.USERDATA, uid)
    THEN send(w, Msg(from, "callback", uid, 0, 0, "Quiz not found."))
    ELSE IF ~ InRange(w.heap[w.USERDATA[uid].pending_quiz].questions, qidx)
         THEN send(w, Msg(from, "callback", uid, 0, 0, "Error occurred."))
         ELSE record_answer(w, from, uid, qidx, opt)

\* the slip of storing the outcome as the chapter's whole list
book_answer_overwriting(w, from, ch_id, q_idx, opt_idx) ==
    IF ch_id \notin DOMAIN BOOK_MAP \/ ~ InRange(BOOK_MAP[ch_id].quiz, q_idx)
    THEN send(w, Msg(from, "callback", Str(from), 0, 0, "Error occurred."))
    ELSE LET quiz == PyIndex(BOOK_MAP[ch_id].quiz, q_idx)
             correct == (opt_idx = quiz.a)
             uid == Str(from)
             w1 == ensure_user(w, uid)
             w2 == [w1 EXCEPT !.USERDATA[uid].scores =
                        DictSet(@, ch_id, << IF correct THEN 1 ELSE 0 >>)]
             w3 == send(save_data(w2), Msg(from, "text", uid, 0, 0,
                                           IF correct THEN "Correct!" ELSE "Wrong. Ans:"))
         IN  send(w3, Msg(from, "callback", uid, 0, 0, ""))

\* the ans_ branch of callback_query; a missing chapter or question ends in the except
\* clause before anything is stored
book_answer(w, from, ch_id, q_idx, opt_idx) ==
    IF ch_id \notin DOMAIN BOOK_MAP \/ ~ InRange(BOOK_MAP[ch_id].quiz, q_idx)
    THEN send(w, Msg(from, "callback", Str(from), 0, 0, "Error occurred."))
    ELSE LET quiz == PyIndex(BOOK_MAP[ch_id].quiz, q_idx)
             correct == (opt_idx = quiz.a)
             uid == Str(from)
             w1 == ensure_user(w, uid)
             before == IF ch_id \in DOMAIN w1.USERDATA[uid].scores
                       THEN w1.USERDATA[uid].scores[ch_id] ELSE << >>
             w2 == [w1 EXCEPT !.USERDATA[uid].scores =
                        DictSet(@, ch_id, Append(before, IF correct THEN 1 ELSE 0))]
             w3 == send(save_data(w2), Msg(from, "text", uid, 0, 0,
                                           IF correct THEN "Correct!" ELSE "Wrong. Ans:"))
         IN  send(w3, Msg(from, "callback", uid, 0, 0, ""))

cmd_start(w, from) ==
    send(ensure_user(w, Str(from)), Msg(from, "text", Str(from), 0, 0, "Namaste!"))

-----------------------------------------------------------------------------
(* The text handler.  A text is the sequence of its words. *)

LowerWord(wd) == CASE wd = "START" -> "start"
                   [] wd = "Quiz" -> "quiz"
                   [] wd = "/AddNote" -> "/addnote"
                   [] OTHER -> wd
Lower(txt) == [i \in 1..Len(txt) |-> LowerWord(txt[i])]       \* txt.lower()

\* txt.lower().startswith(prefix), for the words of the model
StartsWith(txt, prefix) == txt # << >> /\ LowerWord(txt[1]) \in {prefix, prefix \o "s"}

\* txt.partition(" ")[2].strip()
AfterFirstWord(txt) == IF txt = << >> THEN << >> ELSE Tail(txt)

QuizButton == << "(?)", "Quiz" >>            \* the menu button with the question mark
LogsButton == << "(log)", "My", "Logs" >>    \* the menu button with the scroll
TranslateButton == << "(globe)", "Translate" >>

\* handle_text; env: what the environment decides during the call
\*   ts: the clock, questions: random.sample, oid: the new session dict,
\*   reply: openai_chat_reply, translated: the translator's outcome
handle_text(w, from, txt, env) ==
    LET uid == Str(from)
        w1 == log_user(ensure_user(w, uid), uid, env.ts, << "You:" >> \o txt)
    IN  IF Lower(txt) \in { << "/start" >>, << "start" >>, << "help" >> }
        THEN cmd_start(w1, from)
        ELSE IF StartsWith(txt, "/addnote")
        THEN IF AfterFirstWord(txt) # << >>
             THEN LET w2 == [w1 EXCEPT !.USERDATA[uid].notes =
                                Append(@, [text |-> AfterFirstWord(txt), ts |-> env.ts])]
                  IN  send(save_data(w2), Msg(from, "text", uid, 0, 0, "Note saved."))
             ELSE send(w1, Msg(from, "text", uid, 0, 0, "Usage: /addnote your note"))
        ELSE IF Lower(txt) \in { << "/mylugs" >>, << "/logs" >>, Lower(LogsButton) }
        THEN send(w1, Msg(from, "text", uid, Min(10, Len(w1.USERDATA[uid].logs)), 0, "Last logs:"))
        ELSE IF StartsWith(txt, "/translate") \/ txt = TranslateButton
        THEN send(call(w1, "translate", env.translated),
                  Msg(from, "text", uid, 0, 0, env.translated))
        ELSE IF Lower(txt) \in { << "/dailyquiz" >>, Lower(QuizButton) }
        THEN start_quiz(w1, from, env.questions, env.oid)
        ELSE LET w2 == send(call(w1, "complete", env.reply),
                            Msg(from, "text", uid, 0, 0, env.reply))
             IN  log_user(w2, uid, env.ts, << "Bot:", env.reply >>)

\* the slip of a handle_voice whose except clause tells the user nothing
handle_voice_silent(w, from, env) ==
    LET uid == Str(from)
        w1 == ensure_user(w, uid)
        fetched == call(w1, "fetch", "ok")
    IN  CASE env.audio = "fetch failed" -> call(w1, "fetch", "failed")
          [] env.audio = "no lib" ->
                send(call(fetched, "transcribe", "unavailable"),
                     Msg(from, "text", uid, 0, 0, "Server missing audio conversion libs."))
          [] env.audio = "stt failed" -> call(fetched, "transcribe", "failed")
          [] OTHER ->
                LET w2 == log_user(call(fetched, "transcribe", "ok"), uid, env.ts,
                                   << "Voice:" >> \o env.text)
                    w3 == send(w2, Msg(from, "text", uid, 0, 0, "Transcribed:"))
                    w4 == send(call(w3, "complete", env.reply),
                               Msg(from, "text", uid, 0, 0, env.reply))
                IN  log_user(w4, uid, env.ts, << "Bot:", env.reply >>)

\* handle_voice; env.audio: "fetch failed" (get_file or requests.get raises), "no lib"
\* (AudioSegment is None), "stt failed" (transcribe_audio_file raises) or "ok";
\* env.text: the transcript; env.reply: what openai_chat_reply returns
handle_voice(w, from, env) ==
    LET uid == Str(from)
        w1 == ensure_user(w, uid)
        fetched == call(w1, "fetch", "ok")
    IN  CASE env.audio = "fetch failed" ->
                send(call(w1, "fetch", "failed"), Msg(from, "text", uid, 0, 0, "Voice error:"))
          [] env.audio = "no lib" ->
                send(call(fetched, "transcribe", "unavailable"),
                     Msg(from, "text", uid, 0, 0, "Server missing audio conversion libs."))
          [] env.audio = "stt failed" ->
                send(call(fetched, "transcribe", "failed"),
                     Msg(from, "text", uid, 0, 0, "Voice error:"))
          [] OTHER ->
                LET w2 == log_user(call(fetched, "transcribe", "ok"), uid, env.ts,
                                   << "Voice:" >> \o env.text)
                    w3 == send(w2, Msg(from, "text", uid, 0, 0, "Transcribed:"))
                    w4 == send(call(w3, "complete", env.reply),
                               Msg(from, "text", uid, 0, 0, env.reply))
                IN  log_user(w4, uid, env.ts, << "Bot:", env.reply >>)

\* the slip of a handle_photo that does not stop at an empty text
handle_photo_forwarding(w, from, env) ==
    LET uid == Str(from)
        w1 == ensure_user(w, uid)
        fetched == call(w1, "fetch", "ok")
        extracted == Strip(env.raw)
    IN  CASE env.ocr = "fetch failed" ->
                send(call(w1, "fetch", "failed"), Msg(from, "text", uid, 0, 0, "Image error:"))
          [] env.ocr = "no lib" ->
                send(call(fetched, "extractText", "unavailable"),
                     Msg(from, "text", uid, 0, 0, "OCR not available on server."))
          [] env.ocr = "ocr failed" ->
                send(call(fetched, "extractText", "failed"),
                     Msg(from, "text", uid, 0, 0, "Image error:"))
          [] OTHER ->
                LET w2 == call(fetched, "extractText", "ok")
                    w3 == IF Strip(extracted) = << >>
                          THEN send(w2, Msg(from, "text", uid, 0, 0,
                                            "Could not extract text from image."))
                          ELSE send(w2, Msg(from, "text", uid, 0, 0, "Extracted text:"))
                    w4 == log_user(w3, uid, env.ts, << "Photo text:", Join(extracted) >>)
                    w5 == send(call(w4, "complete", env.reply),
                               Msg(from, "text", uid, 0, 0, env.reply))
                IN  log_user(w5, uid, env.ts, << "Bot:", env.reply >>)

\* handle_photo; env.ocr: "fetch failed", "no lib" (pytesseract is None), "ocr failed" or
\* "ok"; env.raw: the characters pytesseract.image_to_string returns
handle_photo(w, from, env) ==
    LET uid == Str(from)
        w1 == ensure_user(w, uid)
        fetched == call(w1, "fetch", "ok")
        extracted == Strip(env.raw)          \* ocr_image_from_bytes: text.strip()
    IN  CASE env.ocr = "fetch failed" ->
                send(call(w1, "fetch", "failed"), Msg(from, "text", uid, 0, 0, "Image error:"))
          [] env.ocr = "no lib" ->
                send(call(fetched, "extractText", "unavailable"),
                     Msg(from, "text", uid, 0, 0, "OCR not available on server."))
          [] env.ocr = "ocr failed" ->
                send(call(fetched, "extractText", "failed"),
                     Msg(from, "text", uid, 0, 0, "Image error:"))
          [] OTHER ->
                LET w2 == call(fetched, "extractText", "ok")
                IN  IF Strip(extracted) = << >>
                    THEN send(w2, Msg(from, "text", uid, 0, 0, "Could not extract text from image."))
                    ELSE LET w3 == send(w2, Msg(from, "text", uid, 0, 0, "Extracted text:"))
                             w4 == log_user(w3, uid, env.ts, << "Photo text:", Join(extracted) >>)
                             w5 == send(call(w4, "complete", env.reply),
                                        Msg(from, "text", uid, 0, 0, env.reply))
                         IN  log_user(w5, uid, env.ts, << "Bot:", env.reply >>)

-----------------------------------------------------------------------------
(* History *)

\* started: a session was started; valid: answers taken for the session's current
\* index; correct: those of them that chose the correct option; other: 1 once an answer
\* for another index was taken (valid and correct are no longer counted then);
\* finished: completion messages sent; fin_score, fin_total: the score and the total
\* the last of them carried
NoHistory == [started |-> 0, valid |-> 0, correct |-> 0, other |-> 0,
              finished |-> 0, fin_score |-> 0, fin_total |-> 0]

\* the history after a handler that sent `msgs` for uid's session
Record(h, msgs) ==
    LET fin == SelectSeq(msgs, LAMBDA m : m.kind = "finished")
    IN  IF fin = << >>
        THEN h
        ELSE [h EXCEPT !.finished = @ + Len(fin),
                       !.fin_score = fin[Len(fin)].a,
                       !.fin_total = fin[Len(fin)].b]

IdleWorker == [pc |-> "idle", from |-> 0, uid |-> "", qidx |-> 0, opt |-> 0,
               state |-> 0, correct |-> FALSE, tmp |-> 0, out |-> << >>]

Update(op, from, uid, qidx, opt, data) ==
    [op |-> op, from |-> from, uid |-> uid, qidx |-> qidx, opt |-> opt, data |-> data,
     calls |-> << >>]

\* a handler's result becomes the state; objects nothing refers to are dropped
Commit(w) ==
    /\ USERDATA' = w.USERDATA
    /\ heap' = Collect(w.heap, Stored(w.USERDATA) \cup Held(workers))
    /\ disk' = w.disk
    /\ sent' = w.sent

-----------------------------------------------------------------------------
(* Updates, each handled to completion *)

CmdStart(from) ==
    /\ Commit(cmd_start(World, from))
    /\ update' = Update("/start", from, Str(from), 0, 0, << >>)
    /\ UNCHANGED <<QUIZ_BANK, clock, workers, quizlog, dispatched, arrivals>>

\* /dailyquiz, with `questions` the outcome of random.sample; the update's data keeps
\* the index and the score of the session the user had, if any
CmdDailyquiz(from, questions) ==
    LET uid == Str(from)
        live == Stored(DictPop(USERDATA, uid)) \cup Held(workers)
        w == start_quiz(World, from, questions, NewOid(live))
    IN  /\ Commit(w)
        /\ update' = Update("/dailyquiz", from, uid, 0, 0,
                             IF HasQuiz(USERDATA, uid)
                             THEN << heap[USERDATA[uid].pending_quiz].index,
                                     heap[USERDATA[uid].pending_quiz].score >>
                             ELSE << >>)
        /\ quizlog' = [quizlog EXCEPT ![uid] = Record([NoHistory EXCEPT !.started = 1], w.sent)]
        /\ UNCHANGED <<QUIZ_BANK, clock, workers, dispatched, arrivals>>

\* the history after a dailyans callback for uid that sent `msgs`
Answered(uid, qidx, opt, msgs) ==
    LET accepted == HasQuiz(USERDATA, uid)
                    /\ InRange(heap[USERDATA[uid].pending_quiz].questions, qidx)
        current == accepted /\ qidx = heap[USERDATA[uid].pending_quiz].index
        correct == accepted /\ opt = PyIndex(heap[USERDATA[uid].pending_quiz].questions, qidx).a
    IN  [quizlog EXCEPT ![uid] = Record(
                IF accepted /\ (~ current \/ @.other = 1)
                THEN [@ EXCEPT !.valid = 0, !.correct = 0, !.other = 1]
                ELSE [@ EXCEPT !.valid = IF current THEN @ + 1 ELSE @,
                               !.correct = IF current /\ correct THEN @ + 1 ELSE @],
                msgs)]

DailyAnswer(from, uid, qidx, opt) ==
    LET w == daily_answer(World, from, uid, qidx, opt)
    IN  /\ Commit(w)
        /\ update' = Update("dailyans", from, uid, qidx, opt, << >>)
        /\ quizlog' = Answered(uid, qidx, opt, w.sent)
        /\ UNCHANGED <<QUIZ_BANK, clock, workers, dispatched, arrivals>>

BookAnswer(from, ch_id, q_idx, opt_idx) ==
    /\ Commit(book_answer(World, from, ch_id, q_idx, opt_idx))
    /\ update' = Update("ans", from, Str(from), q_idx, opt_idx, << ch_id >>)
    /\ UNCHANGED <<QUIZ_BANK, clock, workers, quizlog, dispatched, arrivals>>

\* a text message that no command handler takes
HandleText(from, txt, questions, reply, translated) ==
    LET uid == Str(from)
        live == Stored(DictPop(USERDATA, uid)) \cup Held(workers)
        w == handle_text(World, from, txt,
                         [ts |-> clock, questions |-> questions, oid |-> NewOid(live),
                          reply |-> reply, translated |-> translated])
        started == Lower(txt) \in { << "/dailyquiz" >>, Lower(QuizButton) }
    IN  /\ Commit(w)
        /\ update' = [Update("text", from, uid, 0, 0, txt) EXCEPT !.calls = w.calls]
        /\ quizlog' = IF started
                      THEN [quizlog EXCEPT ![uid] = Record([NoHistory EXCEPT !.started = 1], w.sent)]
                      ELSE quizlog
        /\ UNCHANGED <<QUIZ_BANK, clock, workers, dispatched, arrivals>>

\* the slip of a startup that takes whatever the file holds
load_users_trusting(d) == LoadUsers(d.data)

\* lines 70-77: what startup makes of userdata.json, which is absent, "ok" (json.load
\* returns what save_data wrote) or damaged (open or json.load raises)
load_users(d) == IF d.state = "ok" THEN LoadUsers(d.data) ELSE EmptyDict
load_heap(d) == IF d.state = "ok" THEN LoadHeap(d.data) ELSE EmptyDict

\* the process is restarted: USERDATA is loaded from userdata.json
Restart ==
    /\ USERDATA' = load_users(disk)
    /\ heap' = load_heap(disk)
    /\ sent' = << >>
    /\ update' = Update("restart", 0, "", 0, 0, << >>)
    /\ UNCHANGED <<QUIZ_BANK, disk, clock, workers, quizlog, dispatched, arrivals>>

-----------------------------------------------------------------------------
(* The quiz engine on its own *)

InitStore ==
    /\ USERDATA = EmptyDict
    /\ heap = EmptyDict
    /\ disk = [state |-> "absent", data |-> EmptyDict]
    /\ sent = << >>
    /\ clock = 0
    /\ update = Update("restart", 0, "", 0, 0, << >>)
    /\ workers = [t \in Threads |-> IdleWorker]
    /\ quizlog = [k \in PayloadKeys |-> NoHistory]
    /\ dispatched = << >>
    /\ arrivals = << >>

QuizSenders == {1}

SampleLen == Min(SampleSize, Len(QUIZ_BANK))

InitQuiz ==
    /\ QUIZ_BANK \in {BankEmpty, BankSmall, QUIZ_BANK_SRC}
    /\ InitStore

NextQuiz ==
    \/ \E from \in UserIds : CmdStart(from)
    \/ \E from \in QuizSenders, questions \in Rotations(QUIZ_BANK, SampleLen) :
            CmdDailyquiz(from, questions)
    \/ \E from \in QuizSenders, uid \in PayloadKeys, qidx \in QIdxs, opt \in Opts :
            DailyAnswer(from, uid, qidx, opt)
    \/ Restart

SpecQuiz == InitQuiz /\ [][NextQuiz]_vars

-----------------------------------------------------------------------------
(* The whole bot, one update at a time *)

Texts == { << "START" >>, << "/addnote", "milk" >>, << "/addnote" >>, << "/logs" >>,
           << "/translate", "namaste" >>, QuizButton, << "hello" >> }
Replies == { "AI not configured on server.", "Paris." }
Translations == { "Translation not available on server.", "Translated:" }
ChapterIds == { "ch1", "ch2", "ch7" }

\* log, note and score entries the store holds
RECURSIVE SumOver(_, _)
SumOver(f, S) == IF S = {} THEN 0
                 ELSE LET x == CHOOSE y \in S : TRUE IN f[x] + SumOver(f, S \ {x})

EntriesOf(rec) == Len(rec.logs) + Len(rec.notes)
                  + SumOver([c \in DOMAIN rec.scores |-> Len(rec.scores[c])], DOMAIN rec.scores)
TotalEntries(U) == SumOver([k \in DOMAIN U |-> EntriesOf(U[k])], DOMAIN U)

\* what the bound MaxLoad counts
Load(U, hist) == TotalEntries(U) + SumOver([k \in Keys |-> hist[k].started], Keys)

\* the taps of this specification: the buttons of a quiz of two questions, tapped in
\* the private chat the quiz was sent to
TapIdxs == 0 .. 1
TapOpts == 0 .. 1

\* a text message, with every outcome of the calls its branch makes
Text(from, txt) ==
    \E questions \in IF txt = QuizButton THEN Rotations(QUIZ_BANK, SampleLen) ELSE {<< >>},
       reply \in IF txt = << "hello" >> THEN Replies ELSE {""},
       translated \in IF txt[1] = "/translate" THEN Translations ELSE {""} :
        HandleText(from, txt, questions, reply, translated)

Init ==
    /\ QUIZ_BANK = BankSmall
    /\ InitStore

Next ==
    \/ \E from \in UserIds : CmdStart(from)
    \/ \E from \in UserIds, questions \in Rotations(QUIZ_BANK, SampleLen) :
            CmdDailyquiz(from, questions) /\ Load(USERDATA', quizlog') <= MaxLoad
    \/ \E from \in UserIds, qidx \in TapIdxs, opt \in TapOpts :
            DailyAnswer(from, Str(from), qidx, opt)
    \/ \E from \in UserIds, ch_id \in ChapterIds, q_idx \in {0}, opt_idx \in TapOpts :
            BookAnswer(from, ch_id, q_idx, opt_idx) /\ Load(USERDATA', quizlog') <= MaxLoad
    \/ /\ Load(USERDATA, quizlog) < MaxLoad
       /\ \E from \in UserIds, txt \in Texts :
            Text(from, txt) /\ Load(USERDATA', quizlog') <= MaxLoad
    \/ Restart

Spec == Init /\ [][Next]_vars

-----------------------------------------------------------------------------
(* The log on its own: one user, one append a second *)

LogSenders == {1}

LogAppend(from, text) ==
    /\ Len(arrivals) < MaxAppends
    /\ Commit(log_user(World, Str(from), clock, text))
    /\ arrivals' = Append(arrivals, [ts |-> clock, text |-> text])
    /\ clock' = clock + 1
    /\ update' = Update("log", from, Str(from), 0, 0, text)
    /\ UNCHANGED <<QUIZ_BANK, workers, quizlog, dispatched>>

InitLog ==
    /\ QUIZ_BANK = QUIZ_BANK_SRC
    /\ InitStore

NextLog == \E from \in LogSenders, text \in { << "You:", "hello" >> } : LogAppend(from, text)

SpecLog == InitLog /\ [][NextLog]_vars

-----------------------------------------------------------------------------
(* The worker threads.  telebot hands each update to one of its worker threads, and  *)
(* the interpreter may switch threads between any two reads or writes of a shared    *)
(* object.  A worker's pc names the line of main.py it is about to run (r: the read, *)
(* w: the write of a read-modify-write line).                                        *)

AllIdle == \A t \in Threads : workers[t].pc = "idle"

Dispatched(op) == Len(SelectSeq(dispatched, LAMBDA u : u.op = op))

\* worker t goes on with the locals `me`; the store and the heap become U and H
Proceed(t, me, U, H) ==
    LET W == [workers EXCEPT ![t] = me]
    IN  /\ workers' = W
        /\ USERDATA' = U
        /\ heap' = Collect(H, Stored(U) \cup Held(W))

\* worker t's handler returns, having sent `out`
Return(t, out, U, H) ==
    /\ Proceed(t, IdleWorker, U, H)
    /\ sent' = out

\* lines 311-322: the callback is taken, the session looked up, the answer compared
AnswerBegin(t, from, uid, qidx, opt) ==
    /\ workers[t].pc = "idle"
    /\ Dispatched("dailyans") < MaxTaps
    /\ dispatched' = Append(dispatched, Update("dailyans", from, uid, qidx, opt, << >>))
    /\ IF ~ HasQuiz(USERDATA, uid)
       THEN Return(t, << Msg(from, "callback", uid, 0, 0, "Quiz not found.") >>, USERDATA, heap)
       ELSE LET oid == USERDATA[uid].pending_quiz
            IN  IF ~ InRange(heap[oid].questions, qidx)
                THEN Return(t, << Msg(from, "callback", uid, 0, 0, "Error occurred.") >>,
                            USERDATA, heap)
                ELSE LET correct == (opt = PyIndex(heap[oid].questions, qidx).a)
                     IN  /\ Proceed(t, [IdleWorker EXCEPT
                                            !.pc = IF correct THEN "L324r" ELSE "L325r",
                                            !.from = from, !.uid = uid, !.qidx = qidx,
                                            !.opt = opt, !.state = oid, !.correct = correct],
                                    USERDATA, heap)
                         /\ sent' = sent
    /\ UNCHANGED <<QUIZ_BANK, disk, clock, update, quizlog, arrivals>>

\* line 324: state.get("score", 0) ...
AnswerReadScore(t) ==
    /\ workers[t].pc = "L324r"
    /\ Proceed(t, [workers[t] EXCEPT !.pc = "L324w", !.tmp = heap[workers[t].state].score],
               USERDATA, heap)
    /\ UNCHANGED <<QUIZ_BANK, disk, sent, clock, update, quizlog, dispatched, arrivals>>

\* ... state["score"] = ... + 1
AnswerWriteScore(t) ==
    /\ workers[t].pc = "L324w"
    /\ Proceed(t, [workers[t] EXCEPT !.pc = "L325r"], USERDATA,
               [heap EXCEPT ![workers[t].state].score = workers[t].tmp + 1])
    /\ UNCHANGED <<QUIZ_BANK, disk, sent, clock, update, quizlog, dispatched, arrivals>>

\* line 325: state.get("index", 0) ...
AnswerReadIndex(t) ==
    /\ workers[t].pc = "L325r"
    /\ Proceed(t, [workers[t] EXCEPT !.pc = "L325w", !.tmp = heap[workers[t].state].index],
               USERDATA, heap)
    /\ UNCHANGED <<QUIZ_BANK, disk, sent, clock, update, quizlog, dispatched, arrivals>>

\* ... state["index"] = ... + 1
AnswerWriteIndex(t) ==
    /\ workers[t].pc = "L325w"
    /\ Proceed(t, [workers[t] EXCEPT !.pc = "L326"], USERDATA,
               [heap EXCEPT ![workers[t].state].index = workers[t].tmp + 1])
    /\ UNCHANGED <<QUIZ_BANK, disk, sent, clock, update, quizlog, dispatched, arrivals>>

\* line 326: USERDATA[uid]["pending_quiz"] = state
AnswerStore(t) ==
    /\ workers[t].pc = "L326"
    /\ Proceed(t, [workers[t] EXCEPT !.pc = "L327"],
               [USERDATA EXCEPT ![workers[t].uid] = DictSet(@, "pending_quiz", workers[t].state)],
               heap)
    /\ UNCHANGED <<QUIZ_BANK, disk, sent, clock, update, quizlog, dispatched, arrivals>>

\* lines 327-328: save_data(), "Answer recorded."
AnswerSave(t) ==
    /\ workers[t].pc = "L327"
    /\ disk' = [state |-> "ok", data |-> Dump(USERDATA, heap)]
    /\ Proceed(t, [workers[t] EXCEPT !.pc = "L245", !.state = 0,
                       !.out = Append(@, Msg(workers[t].from, "callback", workers[t].uid,
                                             0, 0, "Answer recorded."))],
               USERDATA, heap)
    /\ UNCHANGED <<QUIZ_BANK, sent, clock, update, quizlog, dispatched, arrivals>>

\* lines 245-248 of send_next_quiz_question: the session is looked up
NextLookup(t) ==
    /\ workers[t].pc = "L245"
    /\ IF ~ HasQuiz(USERDATA, workers[t].uid)
       THEN Return(t, Append(workers[t].out, Msg(workers[t].from, "text", workers[t].uid,
                                                0, 0, "No quiz in progress.")),
                   USERDATA, heap)
       ELSE /\ Proceed(t, [workers[t] EXCEPT !.pc = "L249",
                               !.state = USERDATA[workers[t].uid].pending_quiz],
                       USERDATA, heap)
            /\ sent' = sent
    /\ UNCHANGED <<QUIZ_BANK, disk, clock, update, quizlog, dispatched, arrivals>>

\* lines 249-250 and 257-261: the index is read; the next question is sent
NextReadIndex(t) ==
    /\ workers[t].pc = "L249"
    /\ LET state == heap[workers[t].state]
           idx == state.index
       IN  IF idx >= Len(state.questions)
           THEN /\ Proceed(t, [workers[t] EXCEPT !.pc = "L251"], USERDATA, heap)
                /\ sent' = sent
           ELSE Return(t, Append(workers[t].out,
                                 Msg(workers[t].from, "question", workers[t].uid, idx, NumOpts,
                                     PyIndex(state.questions, idx).q)),
                       USERDATA, heap)
    /\ UNCHANGED <<QUIZ_BANK, disk, clock, update, quizlog, dispatched, arrivals>>

\* lines 251-253: the score is read and the completion message sent
NextReadScore(t) ==
    /\ workers[t].pc = "L251"
    /\ LET state == heap[workers[t].state]
       IN  Proceed(t, [workers[t] EXCEPT !.pc = "L254",
                          !.out = Append(@, Msg(workers[t].from, "finished", workers[t].uid,
                                                state.score, Len(state.questions),
                                                "Quiz finished. Score:"))],
                   USERDATA, heap)
    /\ UNCHANGED <<QUIZ_BANK, disk, sent, clock, update, quizlog, dispatched, arrivals>>

\* line 254: USERDATA[uid].pop("pending_quiz", None)
NextPop(t) ==
    /\ workers[t].pc = "L254"
    /\ Proceed(t, [workers[t] EXCEPT !.pc = "L255", !.state = 0],
               [USERDATA EXCEPT ![workers[t].uid] = DictPop(@, "pending_quiz")], heap)
    /\ UNCHANGED <<QUIZ_BANK, disk, sent, clock, update, quizlog, dispatched, arrivals>>

\* line 255: save_data()
NextSave(t) ==
    /\ workers[t].pc = "L255"
    /\ disk' = [state |-> "ok", data |-> Dump(USERDATA, heap)]
    /\ Return(t, workers[t].out, USERDATA, heap)
    /\ UNCHANGED <<QUIZ_BANK, clock, update, quizlog, dispatched, arrivals>>

\* lines 237-238 and 85: /dailyquiz is taken; ensure_user looks the uid up
StartBegin(t, from, questions) ==
    /\ workers[t].pc = "idle"
    /\ Dispatched("/dailyquiz") < MaxStarts
    /\ dispatched' = Append(dispatched, Update("/dailyquiz", from, Str(from), 0, 0, questions))
    /\ Proceed(t, [IdleWorker EXCEPT !.pc = IF Str(from) \in DOMAIN USERDATA THEN "L239" ELSE "L86",
                                     !.from = from, !.uid = Str(from)],
               USERDATA, heap)
    /\ UNCHANGED <<QUIZ_BANK, disk, sent, clock, update, quizlog, arrivals>>

\* line 86: USERDATA[uid] = {...}
StartCreate(t) ==
    /\ workers[t].pc = "L86"
    /\ Proceed(t, [workers[t] EXCEPT !.pc = "L87"],
               DictSet(USERDATA, workers[t].uid, DefaultRecord), heap)
    /\ UNCHANGED <<QUIZ_BANK, disk, sent, clock, update, quizlog, dispatched, arrivals>>

\* line 87: save_data()
StartSaveUser(t) ==
    /\ workers[t].pc = "L87"
    /\ disk' = [state |-> "ok", data |-> Dump(USERDATA, heap)]
    /\ Proceed(t, [workers[t] EXCEPT !.pc = "L239"], USERDATA, heap)
    /\ UNCHANGED <<QUIZ_BANK, sent, clock, update, quizlog, dispatched, arrivals>>

\* lines 239-240: the questions are drawn and the new session stored
StartAssign(t) ==
    /\ workers[t].pc = "L239"
    /\ LET uid == workers[t].uid
           oid == NewOid(Stored(USERDATA) \cup Held(workers))
           mine == SelectSeq(dispatched, LAMBDA u : u.op = "/dailyquiz" /\ u.uid = uid)
       IN  Proceed(t, [workers[t] EXCEPT !.pc = "L241"],
                   [USERDATA EXCEPT ![uid] = DictSet(@, "pending_quiz", oid)],
                   DictSet(heap, oid, [questions |-> mine[Len(mine)].data, index |-> 0, score |-> 0]))
    /\ UNCHANGED <<QUIZ_BANK, disk, sent, clock, update, quizlog, dispatched, arrivals>>

\* line 241: save_data()
StartSave(t) ==
    /\ workers[t].pc = "L241"
    /\ disk' = [state |-> "ok", data |-> Dump(USERDATA, heap)]
    /\ Proceed(t, [workers[t] EXCEPT !.pc = "L245"], USERDATA, heap)
    /\ UNCHANGED <<QUIZ_BANK, sent, clock, update, quizlog, dispatched, arrivals>>

InitThreads ==
    /\ QUIZ_BANK = BankSmall
    /\ InitStore

NextThreads ==
    \E t \in Threads :
        \/ \E from \in QuizSenders, questions \in Rotations(QUIZ_BANK, SampleLen) :
                StartBegin(t, from, questions)
        \/ StartCreate(t) \/ StartSaveUser(t) \/ StartAssign(t) \/ StartSave(t)
        \/ \E from \in QuizSenders, qidx \in TapIdxs, opt \in TapOpts :
                AnswerBegin(t, from, Str(from), qidx, opt)
        \/ AnswerReadScore(t) \/ AnswerWriteScore(t)
        \/ AnswerReadIndex(t) \/ AnswerWriteIndex(t)
        \/ AnswerStore(t) \/ AnswerSave(t)
        \/ NextLookup(t) \/ NextReadIndex(t) \/ NextReadScore(t) \/ NextPop(t) \/ NextSave(t)

SpecThreads == InitThreads /\ [][NextThreads]_vars

-----------------------------------------------------------------------------
(* Sampling on its own: every outcome of random.sample *)

InitSample ==
    /\ QUIZ_BANK \in {BankEmpty, BankSmall, QUIZ_BANK_SRC, BankExtended}
    /\ InitStore

NextSample ==
    \E from \in QuizSenders, questions \in Sample(QUIZ_BANK, SampleLen) :
        CmdDailyquiz(from, questions)

SpecSample == InitSample /\ [][NextSample]_vars

-----------------------------------------------------------------------------
(* Callback payloads *)

ReadPrefix == << "r", "e", "a", "d", "_" >>
QuizPrefix == << "q", "u", "i", "z", "_" >>
AnsPrefix == << "a", "n", "s", "_" >>
DailyPrefix == << "d", "a", "i", "l", "y", "a", "n", "s", "_" >>

\* a structured action: namespace, entity id (its characters), question and option index
Action(ns, id, q, opt) == [ns |-> ns, id |-> id, q |-> q, opt |-> opt]

\* the callback_data the keyboards build: chapters_inline_kb, quiz_chapters_inline,
\* quiz_options_kb and the buttons of send_next_quiz_question
Encode(x) ==
    CASE x.ns = "read" -> ReadPrefix \o x.id
      [] x.ns = "quiz" -> QuizPrefix \o x.id
      [] x.ns = "ans" -> AnsPrefix \o x.id \o << "_" >> \o FormatInt(x.q) \o << "_" >> \o FormatInt(x.opt)
      [] x.ns = "dailyans" ->
            DailyPrefix \o x.id \o << "_" >> \o FormatInt(x.q) \o << "_" >> \o FormatInt(x.opt)

\* what callback_query makes of a payload: the namespace by the first prefix that
\* matches; "malformed" where the unpacking of the parts or int() raises ValueError
Malformed(ns) == [ns |-> ns, id |-> << >>, q |-> 0, opt |-> 0, ok |-> FALSE]
Decoded(ns, id, q, opt) == [ns |-> ns, id |-> id, q |-> q, opt |-> opt, ok |-> TRUE]

\* the slip of taking the option index for the question index
DecodeParts_swapped(ns, data) ==
    LET parts == Split(data)
    IN  IF Len(parts) = 4 /\ IsInt(parts[3]) /\ IsInt(parts[4])
        THEN Decoded(ns, parts[2], ParseInt(parts[4]), ParseInt(parts[3]))
        ELSE Malformed(ns)

DecodeParts(ns, data) ==
    LET parts == Split(data)
    IN  IF Len(parts) = 4 /\ IsInt(parts[3]) /\ IsInt(parts[4])
        THEN Decoded(ns, parts[2], ParseInt(parts[3]), ParseInt(parts[4]))
        ELSE Malformed(ns)

Decode(data) ==
    IF HasPrefix(data, ReadPrefix) THEN Decoded("read", SplitOnce(data)[2], 0, 0)
    ELSE IF HasPrefix(data, QuizPrefix) THEN Decoded("quiz", SplitOnce(data)[2], 0, 0)
    ELSE IF HasPrefix(data, AnsPrefix) THEN DecodeParts("ans", data)
    ELSE IF HasPrefix(data, DailyPrefix) THEN DecodeParts("dailyans", data)
    ELSE Malformed("unknown")

\* the read_ and quiz_ branches of callback_query
read_chapter(w, from, ch_id) ==
    IF ch_id \notin DOMAIN BOOK_MAP
    THEN send(w, Msg(from, "callback", Str(from), 0, 0, "Not found."))
    ELSE send(send(w, Msg(from, "text", Str(from), 0, 0, BOOK_MAP[ch_id].title)),
              Msg(from, "callback", Str(from), 0, 0, ""))

quiz_chapter(w, from, ch_id) ==
    IF ch_id \notin DOMAIN BOOK_MAP
    THEN send(w, Msg(from, "callback", Str(from), 0, 0, "Not found."))
    ELSE send(send(w, Msg(from, "question", Str(from), 0, NumOpts, BOOK_MAP[ch_id].quiz[1].q)),
              Msg(from, "callback", Str(from), 0, 0, ""))

\* the slip of a callback_query that calls ensure_user for whoever tapped
callback_query_ensuring(w, from, data) ==
    LET x == Decode(data)
        w0 == ensure_user(w, Str(from))
        failed == send(w0, Msg(from, "callback", Str(from), 0, 0, "Error occurred."))
    IN  CASE x.ns = "read" -> read_chapter(w0, from, Join(x.id))
          [] x.ns = "quiz" -> quiz_chapter(w0, from, Join(x.id))
          [] x.ns = "ans" -> IF x.ok THEN book_answer(w0, from, Join(x.id), x.q, x.opt) ELSE failed
          [] x.ns = "dailyans" ->
                IF x.ok THEN daily_answer(w0, from, Join(x.id), x.q, x.opt) ELSE failed
          [] OTHER -> send(w0, Msg(from, "callback", Str(from), 0, 0, "Unknown action."))

\* callback_query: the branches in the order of the code; an exception raised while
\* the payload is taken apart ends in the except clause
callback_query(w, from, data) ==
    LET x == Decode(data)
        failed == send(w, Msg(from, "callback", Str(from), 0, 0, "Error occurred."))
    IN  CASE x.ns = "read" -> read_chapter(w, from, Join(x.id))
          [] x.ns = "quiz" -> quiz_chapter(w, from, Join(x.id))
          [] x.ns = "ans" -> IF x.ok THEN book_answer(w, from, Join(x.id), x.q, x.opt) ELSE failed
          [] x.ns = "dailyans" ->
                IF x.ok THEN daily_answer(w, from, Join(x.id), x.q, x.opt) ELSE failed
          [] OTHER -> send(w, Msg(from, "callback", Str(from), 0, 0, "Unknown action."))

-----------------------------------------------------------------------------
(* The router: button taps with their payload, voice and photo messages, startup *)

\* a button is tapped, or any payload is sent as a callback
Callback(from, data) ==
    LET w == callback_query(World, from, data)
        x == Decode(data)
    IN  /\ Commit(w)
        /\ update' = Update("callback", from, Str(from), 0, 0, data)
        /\ quizlog' = IF x.ns = "dailyans" /\ x.ok /\ Join(x.id) \in DOMAIN quizlog
                      THEN Answered(Join(x.id), x.q, x.opt, w.sent)
                      ELSE quizlog
        /\ UNCHANGED <<QUIZ_BANK, clock, workers, dispatched, arrivals>>

Voice(from, audio, text, reply) ==
    LET w == handle_voice(World, from, [ts |-> clock, audio |-> audio, text |-> text, reply |-> reply])
    IN  /\ Commit(w)
        /\ update' = [Update("voice", from, Str(from), 0, 0, << audio >>) EXCEPT !.calls = w.calls]
        /\ UNCHANGED <<QUIZ_BANK, clock, workers, quizlog, dispatched, arrivals>>

Photo(from, ocr, raw, reply) ==
    LET w == handle_photo(World, from, [ts |-> clock, ocr |-> ocr, raw |-> raw, reply |-> reply])
    IN  /\ Commit(w)
        /\ update' = [Update("photo", from, Str(from), 0, 0, << ocr, raw >>) EXCEPT !.calls = w.calls]
        /\ UNCHANGED <<QUIZ_BANK, clock, workers, quizlog, dispatched, arrivals>>

\* the process is restarted and finds userdata.json damaged: "corrupt" (json.load
\* raises, as for a file cut short) or "unreadable" (open raises)
RestartDamaged(kind) ==
    /\ disk.state = "ok"
    /\ disk' = [disk EXCEPT !.state = kind]
    /\ USERDATA' = load_users(disk')
    /\ heap' = load_heap(disk')
    /\ sent' = << >>
    /\ update' = Update("restart", 0, "", 0, 0, << kind >>)
    /\ UNCHANGED <<QUIZ_BANK, clock, workers, quizlog, dispatched, arrivals>>

Chapter(n) == << "c", "h" >> \o FormatInt(n)       \* "ch1", "ch2", ...

\* the payloads of buttons the keyboards build ...
ChapterButtons ==
    { Encode(Action(ns, Chapter(1), 0, 0)) : ns \in {"read", "quiz"} }
    \cup { Encode(Action("ans", Chapter(1), 0, o)) : o \in {0, 1} }
    \cup { Encode(Action("ans", Chapter(2), 0, 1)) }
QuizButtons == { Encode(Action("dailyans", FormatInt(1), 0, o)) : o \in {0, 1} }

\* ... and payloads no keyboard of this deployment builds
OtherPayloads ==
    { Encode(Action("read", Chapter(7), 0, 0)),
      Encode(Action("quiz", Chapter(7), 0, 0)),
      Encode(Action("ans", Chapter(7), 0, 0)),
      Encode(Action("ans", Chapter(1), 1, 0)),
      Encode(Action("ans", Chapter(1), -1, 0)),
      Encode(Action("dailyans", FormatInt(1), 1, 0)),
      Encode(Action("dailyans", FormatInt(1), -1, 1)),
      Encode(Action("dailyans", FormatInt(9), 0, 0)),
      AnsPrefix \o Chapter(1) \o << "_", "0" >>,
      AnsPrefix \o Chapter(1) \o << "_", "x", "_", "0" >>,
      AnsPrefix \o << "c", "h", "_", "1", "_", "0", "_", "0" >>,
      DailyPrefix \o << "1", "_", "0" >>,
      DailyPrefix \o << "1", "_", "0", "_", "z" >>,
      << "f", "o", "o", "_", "1" >>,
      << >> }

\* the bank of this specification: one question, so that a session is one tap long
BankOne == SubSeq(QUIZ_BANK_SRC, 1, 1)

\* user 1 taps anything; user 2 taps the buttons, those of user 1's quiz included
InitRouter ==
    /\ QUIZ_BANK = BankOne
    /\ InitStore

NextRouter ==
    \/ \E from \in UserIds : CmdStart(from)
    \/ \E from \in QuizSenders, questions \in Rotations(QUIZ_BANK, SampleLen) :
            CmdDailyquiz(from, questions)
    \/ \E data \in ChapterButtons \cup QuizButtons \cup OtherPayloads :
            Callback(1, data) /\ TotalEntries(USERDATA') <= MaxScores
    \/ \E data \in ChapterButtons \cup QuizButtons :
            Callback(2, data) /\ TotalEntries(USERDATA') <= MaxScores
    \/ \E from \in UserIds :
            HandleText(from, << "/addnote" >>, << >>, "", "")
            /\ TotalEntries(USERDATA') <= MaxScores

SpecRouter == InitRouter /\ [][NextRouter]_vars

-----------------------------------------------------------------------------
(* Voice, photo and text messages, with the outcomes of the outside services *)

RawTexts == { << >>, << " ", "\n", "\f" >>, << " ", "2", "+", "2", "\n" >> }
AiReplies == { "AI not configured on server.", "AI error:", "Paris." }
\* payloads callback_query cannot carry out, and one it can
FailingPayloads ==
    { Encode(Action("read", Chapter(7), 0, 0)),
      Encode(Action("ans", Chapter(7), 0, 0)),
      Encode(Action("ans", Chapter(1), 1, 0)),
      Encode(Action("dailyans", FormatInt(1), 0, 0)),
      AnsPrefix \o Chapter(1) \o << "_", "0" >>,
      DailyPrefix \o << "1", "_", "x", "_", "0" >>,
      Encode(Action("read", Chapter(1), 0, 0)) }

InitMedia ==
    /\ QUIZ_BANK = BankOne
    /\ InitStore

NextMedia ==
    \/ \E from \in QuizSenders : CmdStart(from)
    \/ \E from \in QuizSenders, audio \in { "fetch failed", "no lib", "stt failed", "ok" },
          reply \in AiReplies :
            Voice(from, audio, << "hello" >>, reply) /\ TotalEntries(USERDATA') <= MaxEntries
    \/ \E from \in QuizSenders, ocr \in { "fetch failed", "no lib", "ocr failed", "ok" },
          raw \in RawTexts, reply \in AiReplies :
            Photo(from, ocr, raw, reply) /\ TotalEntries(USERDATA') <= MaxEntries
    \/ \E from \in QuizSenders, txt \in { << "/translate", "namaste" >>, << "hello" >> },
          reply \in AiReplies,
          translated \in { "Translation not available on server.", "Translate error:",
                           "Translated:" } :
            HandleText(from, txt, << >>, reply, translated) /\ TotalEntries(USERDATA') <= MaxEntries
    \/ \E from \in QuizSenders, data \in FailingPayloads : Callback(from, data)

SpecMedia == InitMedia /\ [][NextMedia]_vars

-----------------------------------------------------------------------------
(* Startup: userdata.json as the last save left it, or damaged *)

Damages == { "corrupt", "unreadable" }

InitStartup ==
    /\ QUIZ_BANK = BankSmall
    /\ InitStore

NextStartup ==
    \/ \E from \in UserIds : CmdStart(from)
    \/ \E from \in QuizSenders, questions \in Rotations(QUIZ_BANK, SampleLen) :
            CmdDailyquiz(from, questions)
    \/ \E from \in QuizSenders, qidx \in TapIdxs, opt \in TapOpts :
            DailyAnswer(from, Str(from), qidx, opt)
    \/ Restart
    \/ \E kind \in Damages : RestartDamaged(kind)

SpecStartup == InitStartup /\ [][NextStartup]_vars

-----------------------------------------------------------------------------
(* The codec: every button a keyboard can build is tapped *)

\* read and quiz buttons of a chapter, the answer buttons of its one question, and the
\* answer buttons of the questions of a random quiz of a user
ButtonActions ==
    { Action(ns, Chapter(c), 0, 0) : ns \in {"read", "quiz"}, c \in 1..Len(BOOK) }
    \cup { Action("ans", Chapter(c), 0, o) : c \in 1..Len(BOOK), o \in Opts }
    \cup { Action("dailyans", FormatInt(u), q, o) : u \in {1, 2, 10, 21}, q \in 0..(SampleSize - 1),
                                                   o \in Opts }

InitCodec ==
    /\ QUIZ_BANK = BankSmall
    /\ InitStore

NextCodec ==
    \E x \in ButtonActions : Callback(1, Encode(x)) /\ TotalEntries(USERDATA') <= MaxCodecScores

SpecCodec == InitCodec /\ [][NextCodec]_vars

-----------------------------------------------------------------------------
(* One user's record: a note, log entries, a score and a quiz, and /start again *)

InitRecord ==
    /\ QUIZ_BANK = BankOne
    /\ InitStore

NextRecord ==
    \/ \E from \in UserIds : CmdStart(from)
    \/ \E from \in QuizSenders, questions \in Rotations(QUIZ_BANK, SampleLen) :
            CmdDailyquiz(from, questions)
    \/ \E from \in QuizSenders, data \in ChapterButtons :
            Callback(from, data) /\ TotalEntries(USERDATA') <= MaxRecord
    \/ \E from \in QuizSenders :
            HandleText(from, << "/addnote", "milk" >>, << >>, "", "")
            /\ TotalEntries(USERDATA') <= MaxRecord

SpecRecord == InitRecord /\ [][NextRecord]_vars

-----------------------------------------------------------------------------
(* Claims about the quiz engine *)

SessionOf(U, H, uid) == H[U[uid].pending_quiz]
Session(uid) == SessionOf(USERDATA, heap, uid)

\* the step handles a dailyans callback for a uid that holds a session
Answering == update'.op = "dailyans" /\ HasQuiz(USERDATA, update'.uid)

\* C1: a dailyans callback whose question index differs from the session's current
\* index leaves the session's score and index unchanged.
C1_StaleAnswerIgnored ==
    [][(Answering /\ update'.qidx # Session(update'.uid).index)
        => (/\ HasQuiz(USERDATA', update'.uid)
            /\ SessionOf(USERDATA', heap', update'.uid).index = Session(update'.uid).index
            /\ SessionOf(USERDATA', heap', update'.uid).score = Session(update'.uid).score)]_vars

\* the first button tapped twice, both taps scored: the replay came at index 1
C1_ReplayCounted ==
    /\ update.op = "dailyans" /\ update.uid = "1" /\ update.qidx = 0
    /\ quizlog["1"].other = 1
    /\ HasQuiz(USERDATA, "1")
    /\ Session("1").index = 2
    /\ Session("1").score = 2

\* C4: an answer for the current index i adds exactly 1 to index, adds 1 to score if the
\* chosen option is the correct one and nothing otherwise; while i + 1 is below the number
\* of questions the session stays, with the same questions (and when i + 1 reaches it,
\* the completion message carries the score so incremented).
C4_AnswerAdvances ==
    [][(/\ Answering
        /\ update'.qidx = Session(update'.uid).index
        /\ update'.qidx < Len(Session(update'.uid).questions))
        => LET uid == update'.uid
               old == Session(uid)
               gain == IF update'.opt = old.questions[update'.qidx + 1].a THEN 1 ELSE 0
           IN  IF old.index + 1 < Len(old.questions)
               THEN /\ HasQuiz(USERDATA', uid)
                    /\ SessionOf(USERDATA', heap', uid) = [old EXCEPT !.index = old.index + 1,
                                                   !.score = old.score + gain]
               ELSE \E i \in 1..Len(sent') :
                        /\ sent'[i].kind = "finished"
                        /\ sent'[i].a = old.score + gain]_vars

\* one answer correct, the next incorrect, of five: index 2, score 1, session present
C4_Witness ==
    /\ HasQuiz(USERDATA, "1")
    /\ Len(Session("1").questions) = 5
    /\ Session("1").index = 2
    /\ Session("1").score = 1
    /\ quizlog["1"].valid = 2 /\ quizlog["1"].correct = 1 /\ quizlog["1"].other = 0

\* C5: a session that took only answers for its then-current index is present while it
\* took fewer than len(questions) of them, and after exactly len(questions) it is absent
\* and exactly one completion message was sent, carrying the number of correct answers
\* and the number of questions.
C5_ClearedAfterLastAnswer ==
    \A uid \in Keys :
        (quizlog[uid].started = 1 /\ quizlog[uid].other = 0)
        => IF quizlog[uid].valid < SampleLen
           THEN HasQuiz(USERDATA, uid) /\ quizlog[uid].finished = 0
           ELSE /\ quizlog[uid].valid = SampleLen
                /\ ~ HasQuiz(USERDATA, uid)
                /\ quizlog[uid].finished = 1
                /\ quizlog[uid].fin_score = quizlog[uid].correct
                /\ quizlog[uid].fin_total = SampleLen

C5_Witness ==
    /\ Len(QUIZ_BANK) = 5
    /\ quizlog["1"].started = 1 /\ quizlog["1"].other = 0
    /\ quizlog["1"].valid = 5 /\ quizlog["1"].correct = 3
    /\ quizlog["1"].finished = 1 /\ quizlog["1"].fin_score = 3
    /\ ~ HasQuiz(USERDATA, "1")

\* C6: after a random quiz is started with a bank of at least 5 questions, the session
\* holds exactly 5 pairwise distinct questions, all of the bank, index 0 and score 0.
C6_FreshSession ==
    \A uid \in Keys :
        (Len(QUIZ_BANK) >= 5 /\ HasQuiz(USERDATA, uid))
        => LET s == Session(uid)
           IN  /\ Len(s.questions) = 5
               /\ \A i, j \in 1..5 : i # j => s.questions[i] # s.questions[j]
               /\ \A i \in 1..5 : \E b \in 1..Len(QUIZ_BANK) : s.questions[i] = QUIZ_BANK[b]
               /\ s.index = 0
               /\ s.score = 0

\* five of six questions, not in the bank's order
C6_Witness ==
    /\ Len(QUIZ_BANK) = 6
    /\ HasQuiz(USERDATA, "1")
    /\ Session("1").questions[1] = QUIZ_BANK[6]
    /\ Session("1").questions[5] = QUIZ_BANK[2]

\* C7: a random quiz requested with an empty bank creates no session and sends neither a
\* question nor a completion message.
C7_EmptyBankNoSession ==
    QUIZ_BANK = << >>
    => /\ \A uid \in Keys : ~ HasQuiz(USERDATA, uid)
       /\ \A uid \in DOMAIN disk.data : "pending_quiz" \notin DOMAIN disk.data[uid]
       /\ \A i \in 1..Len(sent) : sent[i].kind \notin {"question", "finished"}

\* /dailyquiz with the empty bank: the completion message "0/0" was sent
C7_EmptyQuizFinished ==
    /\ QUIZ_BANK = << >>
    /\ update.op = "/dailyquiz"
    /\ \E i \in 1..Len(sent) : sent[i].kind = "finished" /\ sent[i].a = 0 /\ sent[i].b = 0

\* C8: a dailyans callback for a uid that holds no pending quiz is answered with
\* "Quiz not found." and changes neither the store nor the snapshot.
C8_NoSessionNoChange ==
    [][(update'.op = "dailyans" /\ ~ HasQuiz(USERDATA, update'.uid))
        => (/\ sent' = << Msg(update'.from, "callback", update'.uid, 0, 0, "Quiz not found.") >>
            /\ USERDATA' = USERDATA
            /\ heap' = heap
            /\ disk' = disk)]_vars

\* the callback came for a session already completed and cleared
C8_Witness ==
    /\ sent = << Msg(1, "callback", "1", 0, 0, "Quiz not found.") >>
    /\ quizlog["1"].finished = 1
    /\ ~ HasQuiz(USERDATA, "1")

\* ... and for a uid the store has no record of, and for a user who never started one
C8_WitnessStranger ==
    /\ sent = << Msg(1, "callback", StrangerKey, 0, 0, "Quiz not found.") >>
    /\ StrangerKey \notin DOMAIN USERDATA

\* C18: /dailyquiz from a user who has a session in progress leaves the user with a
\* session of newly drawn questions whose index and score are 0, whatever the index
\* and the score of the earlier session were, and the store holds one session object
\* for each user who has a pending quiz.
C18_RestartReplaces ==
    [][(update'.op = "/dailyquiz" /\ HasQuiz(USERDATA, update'.uid))
        => (/\ HasQuiz(USERDATA', update'.uid)
            /\ SessionOf(USERDATA', heap', update'.uid).index = 0
            /\ SessionOf(USERDATA', heap', update'.uid).score = 0
            /\ LET qs == SessionOf(USERDATA', heap', update'.uid).questions
               IN  /\ Len(qs) = SampleLen
                   /\ \A i \in 1..Len(qs) : \E j \in 1..Len(QUIZ_BANK) : qs[i] = QUIZ_BANK[j]
                   /\ \A i, j \in 1..Len(qs) : i # j => qs[i] # qs[j]
            /\ DOMAIN heap' = Stored(USERDATA')
            /\ Cardinality(DOMAIN heap') =
                    Cardinality({k \in DOMAIN USERDATA' : HasQuiz(USERDATA', k)}))]_vars

\* /dailyquiz displaced a session that stood at index 2 with score 1
C18_Witness ==
    /\ update.op = "/dailyquiz"
    /\ update.data = << 2, 1 >>
    /\ Session("1").index = 0
    /\ Session("1").score = 0
    /\ Len(Session("1").questions) = SampleSize

-----------------------------------------------------------------------------
(* Claims about the store *)

\* C9: whenever a handler has completed, userdata.json holds the user map as it is in
\* memory (it is absent only while the map is empty), and loading it gives back that
\* map, a session in progress included.
C9_SnapshotIsStore ==
    /\ disk.state = "absent" => USERDATA = EmptyDict
    /\ disk.state = "ok" =>
        /\ disk.data = Dump(USERDATA, heap)
        /\ Dump(LoadUsers(disk.data), LoadHeap(disk.data)) = Dump(USERDATA, heap)

\* a restart in the middle of a quiz: the session is there again, one answer taken
C9_Witness ==
    /\ update.op = "restart"
    /\ HasQuiz(USERDATA, "1")
    /\ Session("1").index = 1
    /\ Len(Session("1").questions) = 2
    /\ "2" \in DOMAIN USERDATA
    /\ "ch1" \in DOMAIN USERDATA["2"].scores

\* C10: after N log appends for a user the logs are exactly the last min(N, 200) entries
\* appended, in arrival order (so there are never more than 200).
C10_LastEntriesKept ==
    LET uid == "1"
        logs == IF uid \in DOMAIN USERDATA THEN USERDATA[uid].logs ELSE << >>
        N == Len(arrivals)
    IN  /\ Len(logs) = (IF N <= 200 THEN N ELSE 200)
        /\ \A i \in 1..Len(logs) : logs[i] = arrivals[N - Len(logs) + i]

\* more than 200 appends: the oldest entries are gone
C10_Witness ==
    /\ "1" \in DOMAIN USERDATA
    /\ Len(arrivals) = 203
    /\ Len(USERDATA["1"].logs) = 200
    /\ USERDATA["1"].logs[1].ts = 3
    /\ USERDATA["1"].logs[200].ts = 202

-----------------------------------------------------------------------------
(* Claims about concurrent updates *)

\* the dispatched updates handled one after the other, each to completion, in `order`
RECURSIVE SerialRun(_, _)
SerialRun(w, order) ==
    IF order = << >>
    THEN w
    ELSE LET u == dispatched[Head(order)]
             w1 == IF u.op = "dailyans"
                   THEN daily_answer(w, u.from, u.uid, u.qidx, u.opt)
                   ELSE start_quiz(w, u.from, u.data,
                                   NewOid(Stored(DictPop(w.USERDATA, u.uid))))
         IN  SerialRun([w1 EXCEPT !.heap = Collect(@, Stored(w1.USERDATA))], Tail(order))

FreshWorld == [USERDATA |-> EmptyDict, heap |-> EmptyDict,
               disk |-> [state |-> "absent", data |-> EmptyDict], sent |-> << >>,
               calls |-> << >>]

\* C2: once the workers are idle again, the store is what handling the dispatched updates
\* one after the other, in some order, leaves.
C2_Serializable ==
    AllIdle =>
        \E order \in Arrangements(Len(dispatched), Len(dispatched)) :
            LET w == SerialRun(FreshWorld, order)
            IN  Dump(w.USERDATA, w.heap) = Dump(USERDATA, heap)

\* two taps on the same button handled at once, one of the two index increments lost:
\* handled one after the other they end the quiz of two questions
C2_LostUpdate ==
    /\ AllIdle
    /\ Len(dispatched) = 3
    /\ dispatched[1].op = "/dailyquiz"
    /\ dispatched[2].op = "dailyans"
    /\ dispatched[3] = dispatched[2]
    /\ HasQuiz(USERDATA, "1")
    /\ Session("1").index = 1

\* C3: whenever no handler is running, every pending session has
\* 0 <= index <= len(questions) and 0 <= score <= index.
C3_SessionInvariant ==
    AllIdle =>
        \A uid \in Keys :
            HasQuiz(USERDATA, uid) =>
                /\ 0 <= Session(uid).index
                /\ Session(uid).index <= Len(Session(uid).questions)
                /\ 0 <= Session(uid).score
                /\ Session(uid).score <= Session(uid).index

\* no handler is running and a pending session has a score above its index
C3_ScoreAboveIndex ==
    /\ AllIdle
    /\ \E uid \in Keys : HasQuiz(USERDATA, uid) /\ Session(uid).score > Session(uid).index

-----------------------------------------------------------------------------
(* Claims about the router *)

\* the payload is one the claims call unknown or undecodable: no known namespace, a
\* wrong number of parts, an index that is no integer, a chapter id the book does not
\* have, or a question index outside the questions of the chapter or of the session
Undecodable(data) ==
    LET x == Decode(data)
        ch == Join(x.id)
    IN  \/ x.ns = "unknown"
        \/ ~ x.ok
        \/ x.ns \in {"read", "quiz", "ans"} /\ ch \notin DOMAIN BOOK_MAP
        \/ x.ns = "ans" /\ ch \in DOMAIN BOOK_MAP
                        /\ ~ (0 <= x.q /\ x.q < Len(BOOK_MAP[ch].quiz))
        \/ x.ns = "dailyans" /\ HasQuiz(USERDATA, ch)
                             /\ ~ (0 <= x.q /\ x.q < Len(Session(ch).questions))

ErrorTexts ==
    { "Error occurred.", "Unknown action.", "Not found.", "Quiz not found.",
      "Voice error:", "Image error:", "Server missing audio conversion libs.",
      "OCR not available on server.", "Translate error:",
      "Translation not available on server.", "AI error:", "AI not configured on server." }

\* the outcomes of a call to an outside service that are failures
FailureOutcomes ==
    { "failed", "unavailable", "Translate error:", "Translation not available on server.",
      "AI error:", "AI not configured on server." }

\* the callback cannot be carried out in the state it arrives in: the payload does not
\* decode, the chapter or the question is missing, or the session is missing
CallbackFails(data) ==
    LET x == Decode(data)
        id == Join(x.id)
    IN  \/ x.ns = "unknown"
        \/ ~ x.ok
        \/ x.ns \in {"read", "quiz", "ans"} /\ id \notin DOMAIN BOOK_MAP
        \/ x.ns = "ans" /\ id \in DOMAIN BOOK_MAP /\ ~ InRange(BOOK_MAP[id].quiz, x.q)
        \/ x.ns = "dailyans" /\ ~ HasQuiz(USERDATA, id)
        \/ x.ns = "dailyans" /\ HasQuiz(USERDATA, id) /\ ~ InRange(Session(id).questions, x.q)

ErrorsIn(msgs) == Len(SelectSeq(msgs, LAMBDA m : m.text \in ErrorTexts))

\* C12: an update that fails in its handler (a call to an outside service fails or
\* the service is missing, the payload does not decode, the chapter or the session
\* is missing) ends in exactly one error message to the user, and after an update
\* that ended in an error message the next update of a user is taken.
C12_OneErrorMessage ==
    /\ [][(\/ update'.op = "callback" /\ CallbackFails(update'.data)
           \/ /\ update'.op \in {"voice", "photo", "text"}
              /\ \E i \in DOMAIN update'.calls : update'.calls[i].outcome \in FailureOutcomes)
          => ErrorsIn(sent') = 1]_vars
    /\ [](ErrorsIn(sent) > 0 => \A from \in QuizSenders : ENABLED CmdStart(from))

\* speech recognition failed for a voice message of a user who has log entries from
\* earlier updates: one "Voice error:" message
C12_Witness ==
    /\ update.op = "voice"
    /\ update.calls = << [service |-> "fetch", outcome |-> "ok"],
                         [service |-> "transcribe", outcome |-> "failed"] >>
    /\ sent = << Msg(1, "text", "1", 0, 0, "Voice error:") >>
    /\ Len(USERDATA["1"].logs) = MaxEntries

-----------------------------------------------------------------------------
(* Claims about the codec *)

\* C13: for every button a keyboard builds (read and quiz of a chapter, an answer to a
\* chapter's question, an answer to a question of a random quiz), the payload
\* callback_query receives decodes to the action the button was built for; so the
\* decoding of an encoding is the action again, and no two actions of a namespace
\* share a payload.
C13_RoundTrip ==
    update.op = "callback"
    => \A x \in ButtonActions :
            Encode(x) = update.data => Decode(update.data) = Decoded(x.ns, x.id, x.q, x.opt)

\* the last option of the last question of a random quiz of user 21 was tapped
C13_Witness ==
    /\ update.op = "callback"
    /\ update.data = Encode(Action("dailyans", FormatInt(21), SampleSize - 1, NumOpts - 1))
    /\ Decode(update.data) = Decoded("dailyans", << "2", "1" >>, SampleSize - 1, NumOpts - 1)
    /\ sent = << Msg(1, "callback", "21", 0, 0, "Quiz not found.") >>

-----------------------------------------------------------------------------
(* Claims about a user's record *)

\* C14: /start calls ensure_user and nothing else that touches the store.  For a user
\* who has no record it stores the default record (no notes, no scores, language
\* "auto", no logs, no pending quiz); for a user who has one, whatever notes, scores,
\* logs or pending quiz it holds, the store and the file are left as they are.
C14_EnsureIdempotent ==
    [][update'.op = "/start"
        => IF update'.uid \in DOMAIN USERDATA
           THEN USERDATA' = USERDATA /\ heap' = heap /\ disk' = disk
           ELSE /\ USERDATA' = DictSet(USERDATA, update'.uid, DefaultRecord)
                /\ DOMAIN USERDATA'[update'.uid] = {"notes", "scores", "lang", "logs"}
                /\ heap' = heap]_vars

\* /start from a user who has a note, log entries, a score and a quiz in progress
C14_Witness ==
    /\ update.op = "/start"
    /\ update.uid = "1"
    /\ HasQuiz(USERDATA, "1")
    /\ Len(USERDATA["1"].notes) = 1
    /\ Len(USERDATA["1"].logs) = 1
    /\ "ch1" \in DOMAIN USERDATA["1"].scores

\* uid's record as a handler finds it after ensure_user
RecordOf(U, uid) == IF uid \in DOMAIN U THEN U[uid] ELSE DefaultRecord

ScoresOf(rec, ch_id) == IF ch_id \in DOMAIN rec.scores THEN rec.scores[ch_id] ELSE << >>

\* C17: a tap on a chapter's quiz button changes no record; a tap on an answer button of
\* a chapter the book has, for a question the chapter has, appends one outcome (1 for
\* the correct option, else 0) to scores[chapter] of the user who tapped and leaves
\* that user's pending quiz, notes, logs and other chapters' scores, and every other
\* user's record, as they were.
C17_ChapterQuizOneShot ==
    [][update'.op = "callback"
        => LET x == Decode(update'.data)
               ch == Join(x.id)
               uid == update'.uid
               rec == RecordOf(USERDATA, uid)
           IN  /\ x.ns = "quiz" => USERDATA' = USERDATA /\ heap' = heap /\ disk' = disk
               /\ (/\ x.ns = "ans" /\ x.ok /\ ch \in DOMAIN BOOK_MAP
                   /\ 0 <= x.q /\ x.q < Len(BOOK_MAP[ch].quiz))
                  => LET outcome == IF x.opt = BOOK_MAP[ch].quiz[x.q + 1].a THEN 1 ELSE 0
                     IN  /\ USERDATA' = DictSet(USERDATA, uid,
                                [rec EXCEPT !.scores =
                                    DictSet(@, ch, Append(ScoresOf(rec, ch), outcome))])
                         /\ heap' = heap]_vars

\* user 1, who has a note, a log entry, a quiz in progress and a score for chapter 2,
\* tapped the wrong option of chapter 1's question
C17_Witness ==
    /\ update.op = "callback"
    /\ update.data = Encode(Action("ans", Chapter(1), 0, 1))
    /\ HasQuiz(USERDATA, "1")
    /\ Len(USERDATA["1"].notes) = 1
    /\ Len(USERDATA["1"].logs) = 1
    /\ DOMAIN USERDATA["1"].scores = {"ch1", "ch2"}
    /\ USERDATA["1"].scores["ch2"] = << 1 >>
    /\ USERDATA["1"].scores["ch1"] = << 0 >>

\* the user whose record an update is about: the uid of the payload for a dailyans
\* callback, the sender for everything else
TargetOf(u) ==
    IF u.op = "callback" /\ Decode(u.data).ns = "dailyans" /\ Decode(u.data).ok
    THEN Join(Decode(u.data).id)
    ELSE u.uid

\* uid's record with the pending session written out, as json.dump writes it
Whole(U, H, uid) ==
    IF HasQuiz(U, uid) THEN << U[uid], SessionOf(U, H, uid) >> ELSE << U[uid] >>

\* C19: an update (a command, a text, a button tap) leaves the record of every user
\* but one as it was, and creates no record but that one's; the one is the user named
\* in the payload for an answer to a random quiz, whoever tapped, and the sender for
\* everything else.
C19_OneRecordPerUpdate ==
    [][update'.op # "restart"
        => \A k \in (DOMAIN USERDATA \cup DOMAIN USERDATA') \ {TargetOf(update')} :
                /\ k \in DOMAIN USERDATA
                /\ k \in DOMAIN USERDATA'
                /\ Whole(USERDATA', heap', k) = Whole(USERDATA, heap, k)]_vars

\* user 2, who has no record, tapped the correct option of user 1's one question: user
\* 1's quiz is finished with score 1, user 1's earlier score is as it was, and user 2
\* still has no record
C19_Witness ==
    /\ update.op = "callback"
    /\ update.from = 2
    /\ update.data = Encode(Action("dailyans", FormatInt(1), 0, 1))
    /\ DOMAIN USERDATA = {"1"}
    /\ ~ HasQuiz(USERDATA, "1")
    /\ USERDATA["1"].scores = [c \in {"ch1"} |-> << 1 >>]
    /\ quizlog["1"].finished = 1
    /\ quizlog["1"].fin_score = 1

-----------------------------------------------------------------------------
(* Claims about photo messages *)

LogsOf(U, uid) == IF uid \in DOMAIN U THEN U[uid].logs ELSE << >>

\* C15: when the text read from a photo is empty or nothing but whitespace, the one
\* message sent is "Could not extract text from image.", openai_chat_reply is not
\* called and the sender's logs are as they were.
C15_BlankPhotoStops ==
    [][(update'.op = "photo" /\ update'.data[1] = "ok" /\ Strip(update'.data[2]) = << >>)
        => (/\ sent' = << Msg(update'.from, "text", update'.uid, 0, 0,
                              "Could not extract text from image.") >>
            /\ \A i \in DOMAIN update'.calls : update'.calls[i].service # "complete"
            /\ LogsOf(USERDATA', update'.uid) = LogsOf(USERDATA, update'.uid))]_vars

\* a photo that reads as whitespace, from a user whose earlier photo was answered
C15_Witness ==
    /\ update.op = "photo"
    /\ update.data = << "ok", << " ", "\n", "\f" >> >>
    /\ sent = << Msg(1, "text", "1", 0, 0, "Could not extract text from image.") >>
    /\ Len(USERDATA["1"].logs) = 2
    /\ USERDATA["1"].logs[1].text = << "Photo text:", "2+2" >>

-----------------------------------------------------------------------------
(* Claims about startup *)

\* C16: a start that finds userdata.json corrupt or unreadable begins with no user
\* records, and so does one that finds no file; a start that finds the file readable
\* begins with the records the file holds; and after any start the next update of a
\* user is taken.
C16_StartupDegrades ==
    /\ [][update'.op = "restart"
          => (/\ disk'.state \in Damages => USERDATA' = EmptyDict /\ heap' = EmptyDict
              /\ disk'.state = "absent" => USERDATA' = EmptyDict /\ heap' = EmptyDict
              /\ disk'.state = "ok" => Dump(USERDATA', heap') = disk'.data)]_vars
    /\ [](update.op = "restart" => \A from \in UserIds : ENABLED CmdStart(from))

\* a start found the file of two users, one of them in a quiz, cut short
C16_Witness ==
    /\ update.op = "restart"
    /\ update.data = << "corrupt" >>
    /\ disk.state = "corrupt"
    /\ DOMAIN disk.data = {"1", "2"}
    /\ "pending_quiz" \in DOMAIN disk.data["1"]
    /\ USERDATA = EmptyDict

\* after such a start user 1 sent /start: the record is new and the file is whole again
C16_WitnessGoesOn ==
    /\ update.op = "/start"
    /\ disk.state = "ok"
    /\ DOMAIN USERDATA = {"1"}
    /\ USERDATA["1"] = DefaultRecord
    /\ quizlog["1"].started = 1

====
